---- MODULE Spec2Model ----
(***************************************************************************)
(* The socket relay of crispchat (server/sockets.ts, the multi-connection  *)
(* variant): the presence registry activeUsers, the connection handler     *)
(* with its connect-time reconciliation, and the send_message,             *)
(* message_seen, react_message, typing, stop_typing and disconnect         *)
(* handlers, over a Message Store and a User Directory whose operations    *)
(* are atomic per document; with them the handshake middleware (io.use)    *)
(* and the admin route PUT /api/admin/users/:id, which emits force_logout  *)
(* through the same relay.  The presence handlers of the relay with one   *)
(* socket id per user (src/crispchat/server/sockets.ts) are modelled       *)
(* beside it, in the variable `single`.                                    *)
(*                                                                         *)
(* Every `await` of a handler is two steps: the store applies (or fails)   *)
(* the operation the handler issued, and later the handler resumes and     *)
(* runs its synchronous code up to the next await.  Other handlers run in  *)
(* between, as on Node's event loop.  Where the code after a failed        *)
(* operation only logs, the failing step itself ends the handler; where    *)
(* the code after a read only branches on what was read, the read step     *)
(* takes the branch.                                                       *)
(***************************************************************************)
EXTENDS Integers, Sequences, FiniteSets, TLC

\* ---------------------------------------------------------------- bounds
MaxConns == 2
MaxMsgs == 1
MaxSeen == 2
MaxTime == 1
MaxReact == 4
MaxRunning == 2
MaxAdmin == 1
MaxRelay == 2

Users == {"A", "B"}
Conns == 1..MaxConns
MsgIds == 1..MaxMsgs
SeenSlots == 1..MaxSeen
ReactSlots == 1..MaxReact
AdminSlots == 1..MaxAdmin
Emojis == {"+1"}

NoUser == "-"
Sock == "socket"
NoTime == -1

VARIABLES
    activeUsers,    \* userId -> set of socket ids; DOMAIN = the keys of the Map
    conn,           \* per socket: owner, position of its handlers, transport
    last_seen,      \* User Directory: userId -> last_seen
    msgs,           \* Message Store: id -> document; DOMAIN = the stored ids
    send,           \* per message id: the send_message invocation that made it
    seen,           \* message_seen invocations
    msgLog,         \* per message id: the events emitted about it, in order
    presenceTrace,  \* per user: registry edges and presence broadcasts, in order
    now,            \* the latest time new Date() has returned
    react,          \* react_message invocations
    relayLog,       \* message_reaction, typing and force_logout events, in order
    handshake,      \* per socket: the token of its handshake and the middleware's answer
    admin,          \* PUT /api/admin/users/:id requests
    password,       \* User Directory: userId -> stored password hash
    single          \* the relay of server/sockets.ts with one socket id per user:
                    \* its activeUsers Map, its sockets and its presence broadcasts

\* what the handlers of presence, send_message and message_seen never touch
relayVars == <<react, relayLog, handshake, admin, password, single>>

vars == <<activeUsers, conn, last_seen, msgs, send, seen, msgLog, presenceTrace, now,
          relayVars>>

\* --------------------------------------------------------------- helpers
Rank(s) == CASE s = "sent" -> 0 [] s = "delivered" -> 1 [] s = "seen" -> 2

Count(x, s) == Cardinality({i \in 1..Len(s) : s[i] = x})

Put(f, k, v) == [x \in DOMAIN f \cup {k} |-> IF x = k THEN v ELSE f[x]]

Drop(f, k) == [x \in DOMAIN f \ {k} |-> f[x]]

\* activeUsers.has(u) && activeUsers.get(u).size > 0
IsOnline(u) == u \in DOMAIN activeUsers /\ activeUsers[u] # {}

\* the sockets in room u: joined (socket.join ran) and still connected
Room(u) == {c \in Conns : conn[c].pc = "live" /\ conn[c].open /\ conn[c].user = u}

\* the sockets of the namespace: io.emit reaches all of them
Connected == {c \in Conns : conn[c].pc # "free" /\ conn[c].open}

FreeConn == [user |-> NoUser, pc |-> "free", open |-> FALSE, found |-> {}, ts |-> 0,
             due |-> {}]

\* what new Date() may return: time does not run backwards
Clock == now..MaxTime

\* an emitted event: its name, the handler that emitted it, its target (a
\* user's room, or Sock for socket.emit), the sockets it reached, and the
\* status it carries
Event(ev, by, target, to, status) ==
    [ev |-> ev, by |-> by, target |-> target, to |-> to, status |-> status]

\* the sockets registered for u
ConnectionsFor(u) == IF u \in DOMAIN activeUsers THEN activeUsers[u] ELSE {}

\* ------------------------------------------------------------------ Init
\* socket.handshake.auth.token when the client sent none
NoToken == [id |-> NoUser, signed |-> FALSE, expired |-> FALSE]
NoPassword == ""
Unknown == "nobody"

\* bcrypt.hash(password, 10)
Hash(p) == <<"bcrypt", p>>

IdleReact == [pc |-> "idle", by |-> NoUser, messageId |-> 0, emoji |-> "",
              op |-> "none", id |-> 0, doc |-> <<>>, before |-> <<>>, after |-> <<>>,
              alone |-> TRUE]

IdleHandshake == [token |-> NoToken, answer |-> "none", user |-> NoUser]

IdleAdmin == [pc |-> "idle", id |-> NoUser, password |-> NoPassword, changed |-> FALSE]

FreeSingle == [user |-> NoUser, pc |-> "free", open |-> FALSE]

\* server/sockets.ts after setupSockets: new Map<string, string>(), no socket
SingleInit ==
    [activeUsers |-> [u \in {} |-> 0],
     conn |-> [c \in Conns |-> FreeSingle],
     presence |-> [u \in Users |-> <<>>]]

\* no react_message, handshake or administrative request has been handled
RelayInit ==
    /\ react = [k \in ReactSlots |-> IdleReact]
    /\ relayLog = <<>>
    /\ handshake = [c \in Conns |-> IdleHandshake]
    /\ admin = [k \in AdminSlots |-> IdleAdmin]
    /\ password = [u \in Users |-> Hash("pw0")]
    /\ single = SingleInit

Init ==
    /\ RelayInit
    /\ activeUsers = [u \in {} |-> {}]
    /\ conn = [c \in Conns |-> FreeConn]
    /\ last_seen = [u \in Users |-> 0]
    /\ msgs = [m \in {} |-> 0]
    /\ send = [m \in MsgIds |-> [pc |-> "idle", conn |-> 0, sender |-> NoUser,
                                 receiver |-> NoUser, online |-> FALSE]]
    /\ seen = [t \in SeenSlots |-> [pc |-> "idle", by |-> NoUser, messageId |-> 0,
                                    senderId |-> NoUser, ts |-> 0, already |-> FALSE]]
    /\ msgLog = [m \in MsgIds |-> <<>>]
    /\ presenceTrace = [u \in Users |-> <<>>]
    /\ now = 0

\* ------------------------------------------------------ the handshake
\* the tokens a client may present: the claims of a JWT, whether its
\* signature is one made with JWT_SECRET, and whether it has expired
Tokens == [id : Users, signed : BOOLEAN, expired : BOOLEAN]

\* a decoding that verifies nothing (jwt.decode)
VerifyToken_Decode(token) == token.id

\* verifyToken: jwt.verify(token, JWT_SECRET) returns the claims of a token
\* with a good signature that has not expired, and throws otherwise: null
\* (here NoUser) is returned
VerifyToken(token) == IF token.signed /\ ~token.expired THEN token.id ELSE NoUser

\* io.use: the middleware answers the handshake of socket c, which carries
\* token (or none): next(new Error('Authentication error')) refuses the
\* socket, next() admits it as socket.user
Handshake(c, token) ==
    /\ conn[c].pc = "free"
    /\ handshake[c].answer = "none"
    /\ \A d \in Conns : d < c => handshake[d].answer # "none"
    /\ handshake' = [handshake EXCEPT ![c] =
          IF token = NoToken
          THEN [token |-> token, answer |-> "error", user |-> NoUser]
          ELSE IF VerifyToken(token) = NoUser
          THEN [token |-> token, answer |-> "error", user |-> NoUser]
          ELSE [token |-> token, answer |-> "next", user |-> VerifyToken(token)]]
    /\ UNCHANGED <<activeUsers, conn, last_seen, msgs, send, seen, msgLog, presenceTrace, now, single,
                   react, relayLog, admin, password>>

\* socket c passed the middleware as user u
Admitted(c, u) == handshake[c].answer = "next" /\ handshake[c].user = u

\* ------------------------------------------------- the connection handler
\* a registration that creates the user's Set and does not add the socket
Register_WithoutAdd(u, c) ==
    Put(activeUsers, u, IF u \in DOMAIN activeUsers THEN activeUsers[u] \cup {c} ELSE {})

\* activeUsers after `if (!has) set(u, new Set()); get(u).add(c)`
Register(u, c) ==
    Put(activeUsers, u, (IF u \in DOMAIN activeUsers THEN activeUsers[u] ELSE {}) \cup {c})

\* the stored messages addressed to u whose status is sent
SentTo(u) == {m \in DOMAIN msgs : msgs[m].receiver_id = u /\ msgs[m].status = "sent"}

\* io.on('connection'): the socket passed the middleware as user u, and
\* new Date() returns t.  Runs to the first await: register, then issue the
\* last_seen write.  `due` keeps the messages that were in sent for u at this
\* moment, until the handler ends.
Connect(c, u, t) ==
    /\ conn[c].pc = "free"
    /\ \A d \in Conns : d < c => (conn[d].pc # "free" \/ handshake[d].answer = "error")
    /\ activeUsers' = Register(u, c)
    /\ now' = t
    /\ conn' = [conn EXCEPT ![c] = [user |-> u, pc |-> "last_seen_wait",
                                    open |-> TRUE, found |-> {}, ts |-> t,
                                    due |-> SentTo(u)]]
    /\ presenceTrace' = [presenceTrace EXCEPT ![u] =
                            IF IsOnline(u) THEN @ ELSE Append(@, "up")]
    /\ UNCHANGED <<last_seen, msgs, send, seen, msgLog, relayVars>>

\* the store applies User.findByIdAndUpdate(userId, {last_seen}) of the
\* connection handler, or fails it: the handler then rejects, outside any
\* try, and attaches no listener
DbConnLastSeen(c) ==
    /\ conn[c].pc = "last_seen_wait"
    /\ \/ /\ last_seen' = [last_seen EXCEPT ![conn[c].user] = conn[c].ts]
          /\ conn' = [conn EXCEPT ![c].pc = "last_seen_ok", ![c].ts = 0]
       \/ /\ conn' = [conn EXCEPT ![c].pc = "rejected", ![c].ts = 0, ![c].due = {}]
          /\ UNCHANGED last_seen
    /\ UNCHANGED <<activeUsers, msgs, send, seen, msgLog, presenceTrace, now, relayVars>>

\* a handler that joins its room and attaches its listeners right after the
\* broadcast, before the reconciliation
ConnAfterLastSeen_ListensFirst(c) ==
    /\ conn[c].pc = "last_seen_ok"
    /\ presenceTrace' = [presenceTrace EXCEPT ![conn[c].user] = Append(@, "user_online")]
    /\ conn' = [conn EXCEPT ![c].pc = "live", ![c].due = {}]
    /\ UNCHANGED <<activeUsers, last_seen, msgs, send, seen, msgLog, now, relayVars>>

\* the handler resumes: io.emit('user_online'), then issues Message.find
ConnAfterLastSeen(c) ==
    /\ conn[c].pc = "last_seen_ok"
    /\ presenceTrace' = [presenceTrace EXCEPT ![conn[c].user] = Append(@, "user_online")]
    /\ conn' = [conn EXCEPT ![c].pc = "find_wait"]
    /\ UNCHANGED <<activeUsers, last_seen, msgs, send, seen, msgLog, now, relayVars>>

\* Message.find({receiver_id: userId, status: 'sent'}); a failure lands in
\* the catch, after which the handler joins its room
DbFind(c) ==
    /\ conn[c].pc = "find_wait"
    /\ \/ /\ conn' = [conn EXCEPT ![c].pc = "find_ok",
                         ![c].found = {[id |-> m, sender_id |-> msgs[m].sender_id] :
                                        m \in SentTo(conn[c].user)}]
       \/ /\ conn' = [conn EXCEPT ![c].pc = "recon_err", ![c].due = {}]
    /\ UNCHANGED <<activeUsers, last_seen, msgs, send, seen, msgLog, presenceTrace, now, relayVars>>

\* after the find: issue the updateMany when something was found; otherwise
\* (and after a caught failure) socket.join(userId) and attach the listeners
ConnAfterFind(c) ==
    /\ conn[c].pc \in {"find_ok", "recon_err"}
    /\ conn' = [conn EXCEPT ![c].pc = IF conn[c].pc = "find_ok" /\ conn[c].found # {}
                                      THEN "updateMany_wait" ELSE "live",
                            ![c].found = IF conn[c].pc = "find_ok" THEN @ ELSE {},
                            ![c].due = IF conn[c].pc = "find_ok" /\ conn[c].found # {}
                                       THEN @ ELSE {}]
    /\ UNCHANGED <<activeUsers, last_seen, msgs, send, seen, msgLog, presenceTrace, now, relayVars>>

\* a bulk update whose filter names the sender instead of the receiver
DbUpdateMany_BySender(c) ==
    /\ conn[c].pc = "updateMany_wait"
    /\ \/ /\ msgs' = [m \in DOMAIN msgs |->
                        IF msgs[m].sender_id = conn[c].user /\ msgs[m].status = "sent"
                        THEN [msgs[m] EXCEPT !.status = "delivered"] ELSE msgs[m]]
          /\ conn' = [conn EXCEPT ![c].pc = "updateMany_ok"]
       \/ /\ conn' = [conn EXCEPT ![c].pc = "recon_err", ![c].found = {}, ![c].due = {}]
          /\ UNCHANGED msgs
    /\ UNCHANGED <<activeUsers, last_seen, send, seen, msgLog, presenceTrace, now, relayVars>>

\* Message.updateMany({receiver_id: userId, status: 'sent'}, {status: 'delivered'})
DbUpdateMany(c) ==
    /\ conn[c].pc = "updateMany_wait"
    /\ \/ /\ msgs' = [m \in DOMAIN msgs |->
                        IF m \in SentTo(conn[c].user)
                        THEN [msgs[m] EXCEPT !.status = "delivered"] ELSE msgs[m]]
          /\ conn' = [conn EXCEPT ![c].pc = "updateMany_ok"]
       \/ /\ conn' = [conn EXCEPT ![c].pc = "recon_err", ![c].found = {}, ![c].due = {}]
          /\ UNCHANGED msgs
    /\ UNCHANGED <<activeUsers, last_seen, send, seen, msgLog, presenceTrace, now, relayVars>>

\* notify the senders of the messages the find returned, then join and listen
ConnAfterUpdateMany(c) ==
    /\ conn[c].pc = "updateMany_ok"
    /\ msgLog' = [m \in DOMAIN msgLog |->
                    IF \E f \in conn[c].found : f.id = m
                    THEN LET f == CHOOSE f \in conn[c].found : f.id = m
                         IN Append(msgLog[m], Event("message_status", "connection", f.sender_id,
                                                    Room(f.sender_id), "delivered"))
                    ELSE msgLog[m]]
    /\ conn' = [conn EXCEPT ![c].pc = "live", ![c].found = {}, ![c].due = {}]
    /\ UNCHANGED <<activeUsers, last_seen, msgs, send, seen, presenceTrace, now, relayVars>>

\* ----------------------------------------- transport close and disconnect
\* a size test that holds of every set: each close would count as the last
SizeIsZero_Always(sockets) == TRUE

\* userSockets.size === 0, after userSockets.delete(socket.id)
SizeIsZero(sockets) == sockets = {}

\* The transport of socket c closes.  The 'disconnect' listener exists only
\* once the connection handler has reached socket.on('disconnect'); it runs
\* synchronously up to its await, reading new Date() (= t) only when c was
\* the user's last socket.
Close(c, t) ==
    /\ conn[c].pc # "free"
    /\ conn[c].open
    /\ LET u == conn[c].user
           listening == conn[c].pc = "live"
           has == u \in DOMAIN activeUsers
           left == IF has THEN activeUsers[u] \ {c} ELSE {}
           last == listening /\ has /\ SizeIsZero(left)
       IN /\ activeUsers' = IF ~listening \/ ~has THEN activeUsers
                            ELSE IF SizeIsZero(left) THEN Drop(activeUsers, u)
                            ELSE [activeUsers EXCEPT ![u] = left]
          /\ ~last => t = now
          /\ now' = t
          /\ conn' = [conn EXCEPT ![c].open = FALSE,
                                  ![c].pc = IF ~listening THEN @
                                            ELSE IF last THEN "offline_wait" ELSE "closed",
                                  ![c].ts = IF last THEN t ELSE @]
          /\ presenceTrace' = [presenceTrace EXCEPT ![u] =
                                  IF IsOnline(u) /\ ~(u \in DOMAIN activeUsers'
                                                      /\ activeUsers'[u] # {})
                                  THEN Append(@, "down") ELSE @]
    /\ UNCHANGED <<last_seen, msgs, send, seen, msgLog, relayVars>>

\* a disconnect handler that goes on to its emit whether or not the write
\* was applied
DbDiscLastSeen_IgnoresFailure(c) ==
    /\ conn[c].pc = "offline_wait"
    /\ \/ last_seen' = [last_seen EXCEPT ![conn[c].user] = conn[c].ts]
       \/ UNCHANGED last_seen
    /\ conn' = [conn EXCEPT ![c].pc = "offline_ok", ![c].ts = 0]
    /\ UNCHANGED <<activeUsers, msgs, send, seen, msgLog, presenceTrace, now, relayVars>>

\* User.findByIdAndUpdate(userId, {last_seen}) of the disconnect handler; on
\* a failure the handler rejects before its io.emit
DbDiscLastSeen(c) ==
    /\ conn[c].pc = "offline_wait"
    /\ \/ /\ last_seen' = [last_seen EXCEPT ![conn[c].user] = conn[c].ts]
          /\ conn' = [conn EXCEPT ![c].pc = "offline_ok", ![c].ts = 0]
       \/ /\ conn' = [conn EXCEPT ![c].pc = "offline_failed", ![c].ts = 0]
          /\ UNCHANGED last_seen
    /\ UNCHANGED <<activeUsers, msgs, send, seen, msgLog, presenceTrace, now, relayVars>>

\* io.emit('user_offline')
DiscAfterLastSeen(c) ==
    /\ conn[c].pc = "offline_ok"
    /\ presenceTrace' = [presenceTrace EXCEPT ![conn[c].user] = Append(@, "user_offline")]
    /\ conn' = [conn EXCEPT ![c].pc = "offline_sent"]
    /\ UNCHANGED <<activeUsers, last_seen, msgs, send, seen, msgLog, now, relayVars>>

\* ------------------------------------------------------------ send_message
NewMessage(u, r) ==
    [sender_id |-> u, receiver_id |-> r, message |-> "hi", status |-> "sent",
     seen_at |-> NoTime, reactions |-> <<>>]

\* a handler that takes the sender from the payload: any user the client names
SendMessage_TrustsPayload(m, c, r) ==
    /\ conn[c].pc = "live" /\ conn[c].open
    /\ send[m].pc = "idle"
    /\ \A k \in MsgIds : k < m => send[k].pc # "idle"
    /\ \E s \in Users :
          send' = [send EXCEPT ![m] = [pc |-> "save_wait", conn |-> c,
                                      sender |-> s, receiver |-> r,
                                      online |-> FALSE]]
    /\ UNCHANGED <<activeUsers, conn, last_seen, msgs, seen, msgLog, presenceTrace, now, relayVars>>

\* socket.on('send_message') on socket c: new Message(...) with a fresh _id,
\* then the save is issued
SendMessage(m, c, r) ==
    /\ conn[c].pc = "live" /\ conn[c].open
    /\ send[m].pc = "idle"
    /\ \A k \in MsgIds : k < m => send[k].pc # "idle"
    /\ send' = [send EXCEPT ![m] = [pc |-> "save_wait", conn |-> c,
                                    sender |-> conn[c].user, receiver |-> r,
                                    online |-> FALSE]]
    /\ UNCHANGED <<activeUsers, conn, last_seen, msgs, seen, msgLog, presenceTrace, now, relayVars>>

\* a save whose failure goes unnoticed: the handler goes on as after a success
DbSave_IgnoresFailure(m) ==
    /\ send[m].pc = "save_wait"
    /\ \/ msgs' = Put(msgs, m, NewMessage(send[m].sender, send[m].receiver))
       \/ UNCHANGED msgs
    /\ send' = [send EXCEPT ![m].pc = "populate_wait"]
    /\ UNCHANGED <<activeUsers, conn, last_seen, seen, msgLog, presenceTrace, now, relayVars>>

\* newMessage.save(); on success the handler goes on to populate('reply_to'),
\* on failure to the catch, which only logs
DbSave(m) ==
    /\ send[m].pc = "save_wait"
    /\ \/ /\ msgs' = Put(msgs, m, NewMessage(send[m].sender, send[m].receiver))
          /\ send' = [send EXCEPT ![m].pc = "populate_wait"]
       \/ /\ send' = [send EXCEPT ![m].pc = "save_failed"]
          /\ UNCHANGED msgs
    /\ UNCHANGED <<activeUsers, conn, last_seen, seen, msgLog, presenceTrace, now, relayVars>>

\* newMessage.populate('reply_to', ...): a read
DbPopulate(m) ==
    /\ send[m].pc = "populate_wait"
    /\ \/ /\ send' = [send EXCEPT ![m].pc = "populate_ok"]
       \/ /\ send' = [send EXCEPT ![m].pc = "failed"]
    /\ UNCHANGED <<activeUsers, conn, last_seen, msgs, seen, msgLog, presenceTrace, now, relayVars>>

\* a fan-out that goes on to the delivered update whatever the registry holds
SendFanOut_NoPresenceCheck(m) ==
    /\ send[m].pc = "populate_ok"
    /\ msgLog' = [msgLog EXCEPT ![m] =
                    @ \o << Event("receive_message", "send_message", send[m].receiver,
                                  Room(send[m].receiver), "sent"),
                            Event("message_sent", "send_message", Sock,
                                  {send[m].conn} \cap Connected, "sent") >>]
    /\ send' = [send EXCEPT ![m].pc = "findById_wait",
                            ![m].online = IsOnline(send[m].receiver)]
    /\ UNCHANGED <<activeUsers, conn, last_seen, msgs, seen, presenceTrace, now, relayVars>>

\* io.to(receiverId).emit('receive_message'); socket.emit('message_sent');
\* then, if the receiver is in activeUsers, issue Message.findById.  `online`
\* keeps what the test of line 135 found.
SendFanOut(m) ==
    /\ send[m].pc = "populate_ok"
    /\ msgLog' = [msgLog EXCEPT ![m] =
                    @ \o << Event("receive_message", "send_message", send[m].receiver,
                                  Room(send[m].receiver), "sent"),
                            Event("message_sent", "send_message", Sock,
                                  {send[m].conn} \cap Connected, "sent") >>]
    /\ send' = [send EXCEPT ![m].pc = IF IsOnline(send[m].receiver)
                                      THEN "findById_wait" ELSE "done",
                            ![m].online = IsOnline(send[m].receiver)]
    /\ UNCHANGED <<activeUsers, conn, last_seen, msgs, seen, presenceTrace, now, relayVars>>

\* Message.findById(newMessage._id); the handler goes on to the update only
\* if the status it read is 'sent'
DbFindById(m) ==
    /\ send[m].pc = "findById_wait"
    /\ \/ /\ send' = [send EXCEPT ![m].pc = IF m \in DOMAIN msgs /\ msgs[m].status = "sent"
                                            THEN "update_wait" ELSE "done"]
       \/ /\ send' = [send EXCEPT ![m].pc = "failed"]
    /\ UNCHANGED <<activeUsers, conn, last_seen, msgs, seen, msgLog, presenceTrace, now, relayVars>>

\* an update whose failure goes unnoticed: the handler goes on to its emit
DbUpdateDelivered_IgnoresFailure(m) ==
    /\ send[m].pc = "update_wait"
    /\ \/ msgs' = IF m \in DOMAIN msgs
                   THEN [msgs EXCEPT ![m].status = "delivered"] ELSE msgs
       \/ UNCHANGED msgs
    /\ send' = [send EXCEPT ![m].pc = "update_ok"]
    /\ UNCHANGED <<activeUsers, conn, last_seen, seen, msgLog, presenceTrace, now, relayVars>>

\* Message.findByIdAndUpdate(newMessage._id, {status: 'delivered'})
DbUpdateDelivered(m) ==
    /\ send[m].pc = "update_wait"
    /\ \/ /\ msgs' = IF m \in DOMAIN msgs
                     THEN [msgs EXCEPT ![m].status = "delivered"] ELSE msgs
          /\ send' = [send EXCEPT ![m].pc = "update_ok"]
       \/ /\ send' = [send EXCEPT ![m].pc = "failed"]
          /\ UNCHANGED msgs
    /\ UNCHANGED <<activeUsers, conn, last_seen, seen, msgLog, presenceTrace, now, relayVars>>

\* io.to(userId).emit('message_status', {messageId, status: 'delivered'})
SendAfterUpdate(m) ==
    /\ send[m].pc = "update_ok"
    /\ msgLog' = [msgLog EXCEPT ![m] =
                    Append(@, Event("message_status", "send_message", send[m].sender,
                                    Room(send[m].sender), "delivered"))]
    /\ send' = [send EXCEPT ![m].pc = "done"]
    /\ UNCHANGED <<activeUsers, conn, last_seen, msgs, seen, presenceTrace, now, relayVars>>

\* ------------------------------------------------------------ message_seen
IdleSeen == [pc |-> "idle", by |-> NoUser, messageId |-> 0, senderId |-> NoUser,
             ts |-> 0, already |-> FALSE]

\* the ids a client can name: a stored message (it was sent one, or fetched
\* the conversation), or an id that names no message
Nameable(m) == IF m \in DOMAIN msgs THEN TRUE ELSE send[m].pc = "save_failed"

\* socket.on('message_seen') on socket c with payload {messageId: m, senderId: s}:
\* the update is issued with seen_at: new Date() (= t).  `already` records
\* whether the stored status was seen when the event arrived.
MessageSeen(k, c, m, s, t) ==
    /\ conn[c].pc = "live" /\ conn[c].open
    /\ Nameable(m)
    /\ seen[k].pc = "idle"
    /\ \A j \in SeenSlots : j < k => seen[j].pc # "idle"
    /\ now' = t
    /\ seen' = [seen EXCEPT ![k] =
                   [pc |-> "update_wait", by |-> conn[c].user, messageId |-> m,
                    senderId |-> s, ts |-> t,
                    already |-> m \in DOMAIN msgs /\ msgs[m].status = "seen"]]
    /\ UNCHANGED <<activeUsers, conn, last_seen, msgs, send, msgLog, presenceTrace, relayVars>>

\* an update that also writes the payload's senderId into the document
DbSeen_WritesSender(k) ==
    /\ seen[k].pc = "update_wait"
    /\ \/ /\ msgs' = IF seen[k].messageId \in DOMAIN msgs
                     THEN [msgs EXCEPT ![seen[k].messageId].status = "seen",
                                       ![seen[k].messageId].seen_at = seen[k].ts,
                                       ![seen[k].messageId].sender_id = seen[k].senderId]
                     ELSE msgs
          /\ seen' = [seen EXCEPT ![k].pc = "update_ok", ![k].ts = 0]
       \/ /\ seen' = [seen EXCEPT ![k].pc = "failed"]
          /\ UNCHANGED msgs
    /\ UNCHANGED <<activeUsers, conn, last_seen, send, msgLog, presenceTrace, now, relayVars>>

\* Message.findByIdAndUpdate(messageId, {status: 'seen', seen_at}); an id
\* that is not stored updates nothing and is no error
DbSeen(k) ==
    /\ seen[k].pc = "update_wait"
    /\ \/ /\ msgs' = IF seen[k].messageId \in DOMAIN msgs
                     THEN [msgs EXCEPT ![seen[k].messageId].status = "seen",
                                       ![seen[k].messageId].seen_at = seen[k].ts]
                     ELSE msgs
          /\ seen' = [seen EXCEPT ![k].pc = "update_ok", ![k].ts = 0]
       \/ /\ seen' = [seen EXCEPT ![k].pc = "failed"]
          /\ UNCHANGED msgs
    /\ UNCHANGED <<activeUsers, conn, last_seen, send, msgLog, presenceTrace, now, relayVars>>

\* io.to(senderId).emit('message_status', {messageId, status: 'seen'})
SeenAfterUpdate(k) ==
    /\ seen[k].pc = "update_ok"
    /\ msgLog' = [msgLog EXCEPT ![seen[k].messageId] =
                    Append(@, Event("message_status", "message_seen", seen[k].senderId,
                                    Room(seen[k].senderId), "seen"))]
    /\ seen' = [seen EXCEPT ![k] = [IdleSeen EXCEPT !.pc = "done"]]
    /\ UNCHANGED <<activeUsers, conn, last_seen, msgs, send, presenceTrace, now, relayVars>>

\* ----------------------------------------------------------- react_message
\* the entries of a reaction list without their _id, in order
Pairs(list) == [i \in 1..Len(list) |-> [emoji |-> list[i].emoji, user_id |-> list[i].user_id]]

\* the entries of a reaction list for emoji e by user u
Matching(list, u, e) == {i \in 1..Len(list) : list[i].user_id = u /\ list[i].emoji = e}

\* message.reactions.find(r => r.user_id.toString() === userId && r.emoji === emoji):
\* the first such entry
First(S) == CHOOSE i \in S : \A j \in S : i <= j

RECURSIVE Without(_, _)
\* reactions.pull(_id): the list without the entries of that _id
Without(list, id) ==
    IF list = <<>> THEN <<>>
    ELSE IF Head(list).id = id THEN Without(Tail(list), id)
    ELSE <<Head(list)>> \o Without(Tail(list), id)

\* the react_message invocations that are between two of their steps
ReactRunning == {k \in ReactSlots : react[k].pc \in {"findById_wait", "save_wait", "save_ok"}}

\* socket.on('react_message') on socket c with payload {messageId: m, emoji: e}:
\* Message.findById is issued.  `before` keeps the stored pairs at this moment
\* and `alone` tells that no other react_message ran during this one.
ReactMessage(k, c, m, e) ==
    /\ conn[c].pc = "live" /\ conn[c].open
    /\ react[k].pc = "idle"
    /\ \A j \in ReactSlots : j < k => react[j].pc # "idle"
    /\ Cardinality(ReactRunning) < MaxRunning
    /\ react' = [j \in ReactSlots |->
                   IF j = k
                   THEN [IdleReact EXCEPT !.pc = "findById_wait", !.by = conn[c].user,
                                          !.messageId = m, !.emoji = e,
                                          !.before = IF m \in DOMAIN msgs
                                                     THEN Pairs(msgs[m].reactions) ELSE <<>>,
                                          !.alone = ReactRunning = {}]
                   ELSE IF j \in ReactRunning THEN [react[j] EXCEPT !.alone = FALSE]
                   ELSE react[j]]
    /\ UNCHANGED <<activeUsers, conn, last_seen, msgs, send, seen, msgLog, presenceTrace, now, single,
                   relayLog, handshake, admin, password>>

\* Message.findById(messageId), and the synchronous code that follows it: no
\* such message ends the handler; otherwise the loaded document's list is
\* searched and the entry found is pulled, or a new entry (with a fresh _id,
\* here the invocation's number) is pushed, and message.save() is issued
DbReactFind(k) ==
    /\ react[k].pc = "findById_wait"
    /\ \/ /\ react[k].messageId \notin DOMAIN msgs
          /\ react' = [react EXCEPT ![k] = [IdleReact EXCEPT !.pc = "not_found"]]
       \/ /\ react[k].messageId \in DOMAIN msgs
          /\ LET list == msgs[react[k].messageId].reactions
                 hits == Matching(list, react[k].by, react[k].emoji)
             IN react' = [react EXCEPT
                   ![k].pc = "save_wait",
                   ![k].op = IF hits # {} THEN "pull" ELSE "push",
                   ![k].id = IF hits # {} THEN list[First(hits)].id ELSE k,
                   ![k].doc = IF hits # {} THEN Without(list, list[First(hits)].id)
                              ELSE Append(list, [emoji |-> react[k].emoji,
                                                 user_id |-> react[k].by, id |-> k])]
       \/ /\ react' = [react EXCEPT ![k] = [IdleReact EXCEPT !.pc = "failed"]]
    /\ UNCHANGED <<activeUsers, conn, last_seen, msgs, send, seen, msgLog, presenceTrace, now, single,
                   relayLog, handshake, admin, password>>

\* a save that writes the whole list of the loaded document over the stored one
DbReactSave_Overwrite(k) ==
    /\ react[k].pc = "save_wait"
    /\ \/ /\ msgs' = [msgs EXCEPT ![react[k].messageId].reactions = react[k].doc]
          /\ react' = [react EXCEPT ![k].pc = "save_ok", ![k].after = Pairs(react[k].doc)]
       \/ /\ react' = [react EXCEPT ![k] = [IdleReact EXCEPT !.pc = "failed"]]
          /\ UNCHANGED msgs
    /\ UNCHANGED <<activeUsers, conn, last_seen, send, seen, msgLog, presenceTrace, now, single,
                   relayLog, handshake, admin, password>>

\* message.save(): the store applies the pending array operation of the
\* document to the stored list, $push of the new entry or $pull by _id
DbReactSave(k) ==
    /\ react[k].pc = "save_wait"
    /\ \/ /\ LET m == react[k].messageId
                 stored == IF react[k].op = "push"
                           THEN Append(msgs[m].reactions,
                                       [emoji |-> react[k].emoji, user_id |-> react[k].by,
                                        id |-> react[k].id])
                           ELSE Without(msgs[m].reactions, react[k].id)
             IN /\ msgs' = [msgs EXCEPT ![m].reactions = stored]
                /\ react' = [react EXCEPT ![k].pc = "save_ok", ![k].after = Pairs(stored)]
       \/ /\ react' = [react EXCEPT ![k] = [IdleReact EXCEPT !.pc = "failed"]]
          /\ UNCHANGED msgs
    /\ UNCHANGED <<activeUsers, conn, last_seen, send, seen, msgLog, presenceTrace, now, single,
                   relayLog, handshake, admin, password>>

\* an event of the relay that is not about a message's status
Relayed(ev, by, target, to, payload) ==
    [ev |-> ev, by |-> by, target |-> target, to |-> to, payload |-> payload]

\* {messageId, reactions: message.reactions}: the list of the loaded document
ReactionPayload(k) ==
    [messageId |-> react[k].messageId, reactions |-> Pairs(react[k].doc)]

\* a broadcast to every connected socket
ReactBroadcast_ToAll(k) ==
    /\ react[k].pc = "save_ok"
    /\ LET m == msgs[react[k].messageId]
       IN relayLog' = relayLog \o
            << Relayed("message_reaction", react[k].by, m.sender_id,
                       Connected, ReactionPayload(k)),
               Relayed("message_reaction", react[k].by, m.receiver_id,
                       Connected, ReactionPayload(k)) >>
    /\ react' = [react EXCEPT ![k].pc = "done", ![k].doc = <<>>]
    /\ UNCHANGED <<activeUsers, conn, last_seen, msgs, send, seen, msgLog, presenceTrace, now, single,
                   handshake, admin, password>>

\* io.to(message.sender_id).emit('message_reaction', {messageId, reactions});
\* io.to(message.receiver_id).emit(...): the list of the loaded document
ReactBroadcast(k) ==
    /\ react[k].pc = "save_ok"
    /\ LET m == msgs[react[k].messageId]
       IN relayLog' = relayLog \o
            << Relayed("message_reaction", react[k].by, m.sender_id,
                       Room(m.sender_id), ReactionPayload(k)),
               Relayed("message_reaction", react[k].by, m.receiver_id,
                       Room(m.receiver_id), ReactionPayload(k)) >>
    /\ react' = [react EXCEPT ![k].pc = "done", ![k].doc = <<>>]
    /\ UNCHANGED <<activeUsers, conn, last_seen, msgs, send, seen, msgLog, presenceTrace, now, single,
                   handshake, admin, password>>

\* ---------------------------------------------------- typing, stop_typing
\* what a client may send with typing or stop_typing: the receiver it names
\* and, unasked, a sender id
TypingData == [receiverId : Users \cup {Unknown}, senderId : Users]

\* a relay that forwards the sender id found in the payload
Typing_TrustsPayload(c, data) ==
    /\ conn[c].pc = "live" /\ conn[c].open
    /\ Len(relayLog) < MaxRelay
    /\ relayLog' = Append(relayLog, Relayed("typing", conn[c].user, data.receiverId,
                                            Room(data.receiverId),
                                            [senderId |-> data.senderId]))
    /\ UNCHANGED <<activeUsers, conn, last_seen, msgs, send, seen, msgLog, presenceTrace, now, single,
                   react, handshake, admin, password>>

\* socket.on('typing'): io.to(data.receiverId).emit('typing', {senderId: userId})
Typing(c, data) ==
    /\ conn[c].pc = "live" /\ conn[c].open
    /\ Len(relayLog) < MaxRelay
    /\ relayLog' = Append(relayLog, Relayed("typing", conn[c].user, data.receiverId,
                                            Room(data.receiverId),
                                            [senderId |-> conn[c].user]))
    /\ UNCHANGED <<activeUsers, conn, last_seen, msgs, send, seen, msgLog, presenceTrace, now, single,
                   react, handshake, admin, password>>

\* socket.on('stop_typing'): io.to(data.receiverId).emit('stop_typing', {senderId: userId})
StopTyping(c, data) ==
    /\ conn[c].pc = "live" /\ conn[c].open
    /\ Len(relayLog) < MaxRelay
    /\ relayLog' = Append(relayLog, Relayed("stop_typing", conn[c].user, data.receiverId,
                                            Room(data.receiverId),
                                            [senderId |-> conn[c].user]))
    /\ UNCHANGED <<activeUsers, conn, last_seen, msgs, send, seen, msgLog, presenceTrace, now, single,
                   react, handshake, admin, password>>

\* ------------------------------------------- PUT /api/admin/users/:id
\* the route's handler starts for user id with `password` in the body (or
\* none): User.findById is issued
AdminUpdate(k, id, pw) ==
    /\ admin[k].pc = "idle"
    /\ \A j \in AdminSlots : j < k => admin[j].pc # "idle"
    /\ admin' = [admin EXCEPT ![k] = [pc |-> "findById_wait", id |-> id,
                                      password |-> pw, changed |-> FALSE]]
    /\ UNCHANGED <<activeUsers, conn, last_seen, msgs, send, seen, msgLog, presenceTrace, now, single,
                   react, relayLog, handshake, password>>

\* User.findById(id): no such user answers 404, a failure 500; otherwise
\* the fields are set and, if (password), bcrypt.hash is awaited
DbAdminFind(k) ==
    /\ admin[k].pc = "findById_wait"
    /\ \/ /\ admin[k].id \in DOMAIN password
          /\ admin' = [admin EXCEPT ![k].pc = IF admin[k].password # NoPassword
                                              THEN "hash_wait" ELSE "save_wait"]
       \/ /\ admin[k].id \notin DOMAIN password
          /\ admin' = [admin EXCEPT ![k] = [IdleAdmin EXCEPT !.pc = "not_found"]]
       \/ /\ admin' = [admin EXCEPT ![k] = [IdleAdmin EXCEPT !.pc = "failed"]]
    /\ UNCHANGED <<activeUsers, conn, last_seen, msgs, send, seen, msgLog, presenceTrace, now, single,
                   react, relayLog, handshake, password>>

\* user.password = await bcrypt.hash(password, 10); passwordChanged = true;
\* user.save() is issued
AdminHash(k) ==
    /\ admin[k].pc = "hash_wait"
    /\ admin' = [admin EXCEPT ![k].pc = "save_wait", ![k].changed = TRUE]
    /\ UNCHANGED <<activeUsers, conn, last_seen, msgs, send, seen, msgLog, presenceTrace, now, single,
                   react, relayLog, handshake, password>>

\* user.save(); a failure (a duplicate key, the store) goes to the catch
DbAdminSave(k) ==
    /\ admin[k].pc = "save_wait"
    /\ \/ /\ password' = IF admin[k].changed
                         THEN [password EXCEPT ![admin[k].id] = Hash(admin[k].password)]
                         ELSE password
          /\ admin' = [admin EXCEPT ![k].pc = "save_ok"]
       \/ /\ admin' = [admin EXCEPT ![k] = [IdleAdmin EXCEPT !.pc = "failed"]]
          /\ UNCHANGED password
    /\ UNCHANGED <<activeUsers, conn, last_seen, msgs, send, seen, msgLog, presenceTrace, now, single,
                   react, relayLog, handshake>>

\* an emit that does not look at passwordChanged
AdminAfterSave_Always(k) ==
    /\ admin[k].pc = "save_ok"
    /\ relayLog' = Append(relayLog, Relayed("force_logout", "admin", admin[k].id,
                                            Room(admin[k].id), <<>>))
    /\ admin' = [admin EXCEPT ![k].pc = "done"]
    /\ UNCHANGED <<activeUsers, conn, last_seen, msgs, send, seen, msgLog, presenceTrace, now, single,
                   react, handshake, password>>

\* if (passwordChanged) io.to(id).emit('force_logout'); res.json(...)
AdminAfterSave(k) ==
    /\ admin[k].pc = "save_ok"
    /\ relayLog' = IF admin[k].changed
                   THEN Append(relayLog, Relayed("force_logout", "admin", admin[k].id,
                                                 Room(admin[k].id), <<>>))
                   ELSE relayLog
    /\ admin' = [admin EXCEPT ![k].pc = "done"]
    /\ UNCHANGED <<activeUsers, conn, last_seen, msgs, send, seen, msgLog, presenceTrace, now, single,
                   react, handshake, password>>

\* ------------------------- server/sockets.ts: one socket id per user
\* io.on('connection') for a socket admitted as u: activeUsers.set(userId,
\* socket.id) replaces whatever id was stored; the last_seen write is issued
SingleConnect(c, u) ==
    /\ single.conn[c].pc = "free"
    /\ \A d \in Conns : d < c => single.conn[d].pc # "free"
    /\ single' = [single EXCEPT
          !.activeUsers = Put(@, u, c),
          !.conn[c] = [user |-> u, pc |-> "last_seen_wait", open |-> TRUE]]
    /\ UNCHANGED <<activeUsers, conn, last_seen, msgs, send, seen, msgLog, presenceTrace, now,
                   react, relayLog, handshake, admin, password>>

\* User.findByIdAndUpdate(userId, {last_seen: new Date()}) of the connection
\* handler; on a failure the handler rejects and attaches no listener
SingleDbConnLastSeen(c) ==
    /\ single.conn[c].pc = "last_seen_wait"
    /\ \/ /\ last_seen' = [last_seen EXCEPT ![single.conn[c].user] = now]
          /\ single' = [single EXCEPT !.conn[c].pc = "last_seen_ok"]
       \/ /\ single' = [single EXCEPT !.conn[c].pc = "rejected"]
          /\ UNCHANGED last_seen
    /\ UNCHANGED <<activeUsers, conn, msgs, send, seen, msgLog, presenceTrace, now,
                   react, relayLog, handshake, admin, password>>

\* io.emit('user_online'); socket.join(userId); the listeners are attached
SingleConnAfterLastSeen(c) ==
    /\ single.conn[c].pc = "last_seen_ok"
    /\ single' = [single EXCEPT
          !.presence[single.conn[c].user] = Append(@, "user_online"),
          !.conn[c].pc = "live"]
    /\ UNCHANGED <<activeUsers, conn, last_seen, msgs, send, seen, msgLog, presenceTrace, now,
                   react, relayLog, handshake, admin, password>>

\* the transport of socket c closes; socket.on('disconnect'), if attached:
\* activeUsers.delete(userId), whichever socket id the entry holds, then the
\* last_seen write is issued
SingleClose(c) ==
    /\ single.conn[c].pc # "free"
    /\ single.conn[c].open
    /\ single' = [single EXCEPT
          !.activeUsers = IF single.conn[c].pc = "live"
                          THEN Drop(@, single.conn[c].user) ELSE @,
          !.conn[c].open = FALSE,
          !.conn[c].pc = IF @ = "live" THEN "offline_wait" ELSE @]
    /\ UNCHANGED <<activeUsers, conn, last_seen, msgs, send, seen, msgLog, presenceTrace, now,
                   react, relayLog, handshake, admin, password>>

\* User.findByIdAndUpdate(userId, {last_seen: new Date()}) of the disconnect
\* handler; on a failure the handler rejects before its io.emit
SingleDbDiscLastSeen(c) ==
    /\ single.conn[c].pc = "offline_wait"
    /\ \/ /\ last_seen' = [last_seen EXCEPT ![single.conn[c].user] = now]
          /\ single' = [single EXCEPT !.conn[c].pc = "offline_ok"]
       \/ /\ single' = [single EXCEPT !.conn[c].pc = "offline_failed"]
          /\ UNCHANGED last_seen
    /\ UNCHANGED <<activeUsers, conn, msgs, send, seen, msgLog, presenceTrace, now,
                   react, relayLog, handshake, admin, password>>

\* io.emit('user_offline')
SingleDiscAfterLastSeen(c) ==
    /\ single.conn[c].pc = "offline_ok"
    /\ single' = [single EXCEPT
          !.presence[single.conn[c].user] = Append(@, "user_offline"),
          !.conn[c].pc = "offline_sent"]
    /\ UNCHANGED <<activeUsers, conn, last_seen, msgs, send, seen, msgLog, presenceTrace, now,
                   react, relayLog, handshake, admin, password>>

\* ------------------------------------------------------- specifications
ConnectionSteps ==
    \/ \E c \in Conns : DbConnLastSeen(c)
    \/ \E c \in Conns : ConnAfterLastSeen(c)
    \/ \E c \in Conns : DbFind(c)
    \/ \E c \in Conns : ConnAfterFind(c)

ReconcileSteps ==
    \/ \E c \in Conns : DbUpdateMany(c)
    \/ \E c \in Conns : ConnAfterUpdateMany(c)

DisconnectSteps ==
    \/ \E c \in Conns : DbDiscLastSeen(c)
    \/ \E c \in Conns : DiscAfterLastSeen(c)

SendSteps ==
    \/ \E m \in MsgIds, c \in Conns, r \in Users : SendMessage(m, c, r)
    \/ \E m \in MsgIds : DbSave(m)
    \/ \E m \in MsgIds : DbPopulate(m)
    \/ \E m \in MsgIds : SendFanOut(m)
    \/ \E m \in MsgIds : DbFindById(m)
    \/ \E m \in MsgIds : DbUpdateDelivered(m)
    \/ \E m \in MsgIds : SendAfterUpdate(m)

SeenSteps ==
    \/ \E k \in SeenSlots : DbSeen(k)
    \/ \E k \in SeenSlots : SeenAfterUpdate(k)

SeenOnce ==
    \E c \in Conns, m \in MsgIds, s \in Users, t \in Clock : MessageSeen(1, c, m, s, t)

SeenRepeatedly ==
    \E k \in SeenSlots, c \in Conns, m \in MsgIds, s \in Users, t \in Clock :
        MessageSeen(k, c, m, s, t)

\* the relay: every handler, every interleaving.  The clock advances between
\* message_seen events; SpecPresence lets it advance between connects and
\* disconnects.
Next ==
    \/ \E c \in Conns, u \in Users : Connect(c, u, now)
    \/ \E c \in Conns : Close(c, now)
    \/ SeenOnce
    \/ ConnectionSteps
    \/ ReconcileSteps
    \/ DisconnectSteps
    \/ SendSteps
    \/ SeenSteps

Spec == Init /\ [][Next]_vars

ConnectAnytime == \E c \in Conns, u \in Users, t \in Clock : Connect(c, u, t)

CloseAnytime == \E c \in Conns, t \in Clock : Close(c, t)

\* the presence registry alone: connections come and go, no message is sent
NextPresence ==
    \/ ConnectAnytime
    \/ CloseAnytime
    \/ ConnectionSteps
    \/ DisconnectSteps

SpecPresence == Init /\ [][NextPresence]_vars

\* repeated message_seen events: connections stay open, and the clock is
\* read by message_seen only
NextSeen ==
    \/ \E c \in Conns, u \in Users : Connect(c, u, now)
    \/ SeenRepeatedly
    \/ ConnectionSteps
    \/ ReconcileSteps
    \/ SendSteps
    \/ SeenSteps

SpecSeen == Init /\ [][NextSeen]_vars

\* a step in which no store operation fails
NoFailedStep ==
    /\ \A c \in Conns : conn'[c].pc \notin {"rejected", "recon_err", "offline_failed"}
    /\ \A m \in MsgIds : send'[m].pc \notin {"failed", "save_failed"}
    /\ \A k \in SeenSlots : seen'[k].pc # "failed"

\* the relay over a store that answers every operation: the steps of Next
\* in which no operation fails
NextReliable ==
    \/ \E c \in Conns, u \in Users : Connect(c, u, now)
    \/ \E c \in Conns : Close(c, now)
    \/ SeenOnce
    \/ \E c \in Conns : DbConnLastSeen(c) /\ NoFailedStep
    \/ \E c \in Conns : ConnAfterLastSeen(c)
    \/ \E c \in Conns : DbFind(c) /\ NoFailedStep
    \/ \E c \in Conns : ConnAfterFind(c)
    \/ \E c \in Conns : DbUpdateMany(c) /\ NoFailedStep
    \/ \E c \in Conns : ConnAfterUpdateMany(c)
    \/ \E c \in Conns : DbDiscLastSeen(c) /\ NoFailedStep
    \/ \E c \in Conns : DiscAfterLastSeen(c)
    \/ \E m \in MsgIds, c \in Conns, r \in Users : SendMessage(m, c, r)
    \/ \E m \in MsgIds : DbSave(m) /\ NoFailedStep
    \/ \E m \in MsgIds : DbPopulate(m) /\ NoFailedStep
    \/ \E m \in MsgIds : SendFanOut(m)
    \/ \E m \in MsgIds : DbFindById(m) /\ NoFailedStep
    \/ \E m \in MsgIds : DbUpdateDelivered(m) /\ NoFailedStep
    \/ \E m \in MsgIds : SendAfterUpdate(m)
    \/ \E k \in SeenSlots : DbSeen(k) /\ NoFailedStep
    \/ \E k \in SeenSlots : SeenAfterUpdate(k)

SpecReliable == Init /\ [][NextReliable]_vars

\* The relay with a backlog: a message of s to r was sent while r had no
\* connection (its handler ended at the test of line 135; the socket that
\* sent it has closed and is not among Conns), and was left in sent.
Backlog(s, r) ==
    /\ RelayInit
    /\ activeUsers = [u \in {} |-> {}]
    /\ conn = [c \in Conns |-> FreeConn]
    /\ last_seen = [u \in Users |-> 0]
    /\ msgs = [m \in {1} |-> NewMessage(s, r)]
    /\ send = [m \in MsgIds |->
                 IF m = 1 THEN [pc |-> "done", conn |-> 0, sender |-> s,
                                receiver |-> r, online |-> FALSE]
                 ELSE [pc |-> "idle", conn |-> 0, sender |-> NoUser,
                       receiver |-> NoUser, online |-> FALSE]]
    /\ msgLog = [m \in MsgIds |->
                   IF m = 1
                   THEN << Event("receive_message", "send_message", r, {}, "sent"),
                           Event("message_sent", "send_message", Sock, {}, "sent") >>
                   ELSE <<>>]
    /\ seen = [k \in SeenSlots |-> IdleSeen]
    /\ presenceTrace = [u \in Users |-> <<>>]
    /\ now = 0

InitBacklog == \E s, r \in Users : s # r /\ Backlog(s, r)

\* connections opened and closed against the backlog, the store answering
\* every operation
NextReconcile ==
    \/ \E c \in Conns, u \in Users : Connect(c, u, now)
    \/ \E c \in Conns : Close(c, now)
    \/ \E c \in Conns : DbConnLastSeen(c) /\ NoFailedStep
    \/ \E c \in Conns : ConnAfterLastSeen(c)
    \/ \E c \in Conns : DbFind(c) /\ NoFailedStep
    \/ \E c \in Conns : ConnAfterFind(c)
    \/ \E c \in Conns : DbUpdateMany(c) /\ NoFailedStep
    \/ \E c \in Conns : ConnAfterUpdateMany(c)
    \/ \E c \in Conns : DbDiscLastSeen(c) /\ NoFailedStep
    \/ \E c \in Conns : DiscAfterLastSeen(c)

SpecReconcile == InitBacklog /\ [][NextReconcile]_vars

\* A conversation under way: the sockets of Conns have been admitted, each as
\* some user, and their connection handlers have ended; a message of s to r
\* is stored, delivered, its send_message handler ended (the socket that sent
\* it has closed and is not among Conns).  The users being interchangeable,
\* the sender is A.
InitChat ==
    /\ RelayInit
    /\ \E owner \in [Conns -> Users] :
          /\ conn = [c \in Conns |-> [FreeConn EXCEPT !.user = owner[c], !.pc = "live",
                                                      !.open = TRUE]]
          /\ activeUsers = [u \in {owner[c] : c \in Conns} |->
                               {c \in Conns : owner[c] = u}]
          /\ presenceTrace = [u \in Users |->
                                 IF \E c \in Conns : owner[c] = u
                                 THEN <<"up">> \o [i \in 1..Cardinality({c \in Conns : owner[c] = u})
                                                     |-> "user_online"]
                                 ELSE <<>>]
    /\ last_seen = [u \in Users |-> 0]
    /\ \E s \in {"A"}, r \in Users :
          /\ msgs = [m \in {1} |-> [NewMessage(s, r) EXCEPT !.status = "delivered"]]
          /\ send = [m \in MsgIds |->
                       IF m = 1 THEN [pc |-> "done", conn |-> 0, sender |-> s,
                                      receiver |-> r, online |-> TRUE]
                       ELSE [pc |-> "idle", conn |-> 0, sender |-> NoUser,
                             receiver |-> NoUser, online |-> FALSE]]
          /\ msgLog = [m \in MsgIds |->
                         IF m = 1
                         THEN << Event("receive_message", "send_message", r, {}, "sent"),
                                 Event("message_sent", "send_message", Sock, {}, "sent"),
                                 Event("message_status", "send_message", s, {}, "delivered") >>
                         ELSE <<>>]
    /\ seen = [k \in SeenSlots |-> IdleSeen]
    /\ now = 0

\* reactions to the stored message, or to an id that names no message (0),
\* from any socket, in any interleaving
NextReact ==
    \/ \E k \in ReactSlots, c \in Conns, m \in MsgIds \cup {0}, e \in Emojis :
          ReactMessage(k, c, m, e)
    \/ \E k \in ReactSlots : DbReactFind(k)
    \/ \E k \in ReactSlots : DbReactSave(k)
    \/ \E k \in ReactSlots : ReactBroadcast(k)

SpecReact == InitChat /\ [][NextReact]_vars

\* the emojis of the reactions when users react in more than one way
TwoEmojis == {"+1", "heart"}

\* reactions with either emoji to the stored message, from any socket, in
\* any interleaving
NextReactMany ==
    \/ \E k \in ReactSlots, c \in Conns, m \in MsgIds, e \in TwoEmojis :
          ReactMessage(k, c, m, e)
    \/ \E k \in ReactSlots : DbReactFind(k)
    \/ \E k \in ReactSlots : DbReactSave(k)
    \/ \E k \in ReactSlots : ReactBroadcast(k)

\* the chat with one live socket of each user and the message of A to B
InitChatPair ==
    InitChat /\ conn[1].user = "A" /\ conn[2].user = "B" /\ msgs[1].receiver_id = "B"

SpecReactMany == InitChatPair /\ [][NextReactMany]_vars

\* handshakes with any token or none; the sockets the middleware admits
\* connect, and close
NextAuth ==
    \/ \E c \in Conns, token \in Tokens \cup {NoToken} : Handshake(c, token)
    \/ \E c \in Conns, u \in Users : Admitted(c, u) /\ Connect(c, u, now)
    \/ \E c \in Conns : Close(c, now)
    \/ ConnectionSteps
    \/ DisconnectSteps

SpecAuth == Init /\ [][NextAuth]_vars

\* administrative updates of a user, known or not, with or without a new
\* password, while sockets connect and close
NextAdmin ==
    \/ \E c \in Conns, u \in Users : Connect(c, u, now)
    \/ \E c \in Conns : Close(c, now)
    \/ ConnectionSteps
    \/ DisconnectSteps
    \/ \E k \in AdminSlots, id \in Users \cup {Unknown}, pw \in {NoPassword, "pw1"} :
          AdminUpdate(k, id, pw)
    \/ \E k \in AdminSlots : DbAdminFind(k)
    \/ \E k \in AdminSlots : AdminHash(k)
    \/ \E k \in AdminSlots : DbAdminSave(k)
    \/ \E k \in AdminSlots : AdminAfterSave(k)

SpecAdmin == Init /\ [][NextAdmin]_vars

\* typing indicators between sockets that connect and close
NextTyping ==
    \/ \E c \in Conns, u \in Users : Connect(c, u, now)
    \/ \E c \in Conns : Close(c, now)
    \/ ConnectionSteps
    \/ DisconnectSteps
    \/ \E c \in Conns, data \in TypingData : Typing(c, data)
    \/ \E c \in Conns, data \in TypingData : StopTyping(c, data)

SpecTyping == Init /\ [][NextTyping]_vars

\* A message waiting for its receiver: socket 1 of A is live, and an earlier
\* message of A to B (id 0, not one of the bounded sends) was sent while B
\* had no connection and is stored as sent.
InitPending ==
    /\ RelayInit
    /\ activeUsers = [u \in {"A"} |-> {1}]
    /\ conn = [c \in Conns |->
                 IF c = 1 THEN [FreeConn EXCEPT !.user = "A", !.pc = "live", !.open = TRUE]
                 ELSE FreeConn]
    /\ last_seen = [u \in Users |-> 0]
    /\ msgs = [m \in {0} |-> NewMessage("A", "B")]
    /\ send = [m \in MsgIds |-> [pc |-> "idle", conn |-> 0, sender |-> NoUser,
                                 receiver |-> NoUser, online |-> FALSE]]
    /\ msgLog = [m \in {0} \cup MsgIds |->
                   IF m = 0
                   THEN << Event("receive_message", "send_message", "B", {}, "sent"),
                           Event("message_sent", "send_message", Sock, {1}, "sent") >>
                   ELSE <<>>]
    /\ seen = [k \in SeenSlots |-> IdleSeen]
    /\ presenceTrace = [u \in Users |-> IF u = "A" THEN <<"up", "user_online">> ELSE <<>>]
    /\ now = 0

\* the receiver connects while the sender goes on sending, the store
\* answering every operation
NextPending ==
    \/ \E c \in Conns, u \in Users : Connect(c, u, now)
    \/ \E c \in Conns : DbConnLastSeen(c) /\ NoFailedStep
    \/ \E c \in Conns : ConnAfterLastSeen(c)
    \/ \E c \in Conns : DbFind(c) /\ NoFailedStep
    \/ \E c \in Conns : ConnAfterFind(c)
    \/ \E c \in Conns : DbUpdateMany(c) /\ NoFailedStep
    \/ \E c \in Conns : ConnAfterUpdateMany(c)
    \/ \E m \in MsgIds, c \in Conns, r \in Users : SendMessage(m, c, r)
    \/ \E m \in MsgIds : DbSave(m) /\ NoFailedStep
    \/ \E m \in MsgIds : DbPopulate(m) /\ NoFailedStep
    \/ \E m \in MsgIds : SendFanOut(m)
    \/ \E m \in MsgIds : DbFindById(m) /\ NoFailedStep
    \/ \E m \in MsgIds : DbUpdateDelivered(m) /\ NoFailedStep
    \/ \E m \in MsgIds : SendAfterUpdate(m)

SpecPending == InitPending /\ [][NextPending]_vars

\* no inbound event has been handled yet
Quiet ==
    /\ \A m \in MsgIds : send[m].pc = "idle"
    /\ \A k \in SeenSlots : seen[k].pc = "idle"
    /\ \A k \in ReactSlots : react[k].pc = "idle"
    /\ relayLog = <<>>

\* A second socket connects, and the sockets close, at any moment, while one
\* inbound event of any of the five kinds is sent on any socket whose
\* listeners are attached; store operations may fail.
NextListen ==
    \/ \E c \in Conns, u \in Users : Connect(c, u, now)
    \/ \E c \in Conns : Close(c, now)
    \/ ConnectionSteps
    \/ ReconcileSteps
    \/ DisconnectSteps
    \/ \E m \in MsgIds, c \in Conns, r \in Users : Quiet /\ SendMessage(m, c, r)
    \/ \E m \in MsgIds : DbSave(m)
    \/ \E m \in MsgIds : DbPopulate(m)
    \/ \E m \in MsgIds : SendFanOut(m)
    \/ \E m \in MsgIds : DbFindById(m)
    \/ \E m \in MsgIds : DbUpdateDelivered(m)
    \/ \E m \in MsgIds : SendAfterUpdate(m)
    \/ \E c \in Conns, m \in DOMAIN msgs, s \in Users : Quiet /\ MessageSeen(1, c, m, s, now)
    \/ SeenSteps
    \/ \E c \in Conns, m \in DOMAIN msgs, e \in Emojis : Quiet /\ ReactMessage(1, c, m, e)
    \/ \E k \in ReactSlots : DbReactFind(k)
    \/ \E k \in ReactSlots : DbReactSave(k)
    \/ \E k \in ReactSlots : ReactBroadcast(k)
    \/ \E c \in Conns, data \in TypingData : Quiet /\ Typing(c, data)
    \/ \E c \in Conns, data \in TypingData : Quiet /\ StopTyping(c, data)

SpecListen == InitPending /\ [][NextListen]_vars

\* the presence of server/sockets.ts: sockets connect and close
NextSingle ==
    \/ \E c \in Conns, u \in Users : SingleConnect(c, u)
    \/ \E c \in Conns : SingleDbConnLastSeen(c)
    \/ \E c \in Conns : SingleConnAfterLastSeen(c)
    \/ \E c \in Conns : SingleClose(c)
    \/ \E c \in Conns : SingleDbDiscLastSeen(c)
    \/ \E c \in Conns : SingleDiscAfterLastSeen(c)

SpecSingle == Init /\ [][NextSingle]_vars

\* ------------------------------------------------------------------ claims
StatusEvents(m) ==
    {i \in 1..Len(msgLog[m]) : msgLog[m][i].ev = "message_status"}

\* the events a step appends to the log of message m
NewEvents(m) == (Len(msgLog[m]) + 1)..Len(msgLog'[m])

OfflinePath == {"offline_wait", "offline_ok", "offline_failed", "offline_sent"}

ConnsAt(u, pcs) == {c \in Conns : conn[c].user = u /\ conn[c].pc \in pcs}

SendEnded(m) == send[m].pc \in {"done", "failed", "save_failed"}

\* C1: no step moves the stored status of a message backward in
\* sent < delivered < seen.
C1_StoredStatusNeverRegresses ==
    [][\A m \in DOMAIN msgs : Rank(msgs'[m].status) >= Rank(msgs[m].status)]_vars

\* C2: the message_status events emitted to the room of a message's sender
\* are non-decreasing in sent < delivered < seen: no delivered after a seen.
C2_StatusEventsNeverRegress ==
    \A m \in DOMAIN msgs : \A i, j \in StatusEvents(m) :
        (/\ i < j
         /\ msgLog[m][i].target = msgs[m].sender_id
         /\ msgLog[m][j].target = msgs[m].sender_id)
        => Rank(msgLog[m][i].status) <= Rank(msgLog[m][j].status)

\* C3: a message_seen that arrives when the stored status is already seen
\* is a no-op: its steps change neither the store (seen_at) nor the events
\* emitted.
C3_SeenOnSeenIsNoOp ==
    [][\A k \in SeenSlots :
          (/\ seen[k].pc \in {"update_wait", "update_ok"}
           /\ seen[k].already
           /\ seen'[k] # seen[k])
          => (msgs' = msgs /\ msgLog' = msgLog)]_vars

\* C4: user_offline is emitted, and the user's entry removed, only for a
\* close of the last socket in the user's connection set: a close that leaves
\* another registered socket removes no entry, takes no user_offline branch
\* and emits nothing; and each non-empty to empty edge of the set has at most
\* one disconnect handler on the user_offline branch and at most one
\* user_offline.
C4_OfflineOnlyOnLastClose ==
    /\ [](\A u \in Users :
            /\ Cardinality(ConnsAt(u, OfflinePath)) = Count("down", presenceTrace[u])
            /\ Count("user_offline", presenceTrace[u])
                  = Cardinality(ConnsAt(u, {"offline_sent"})))
    /\ [][\A c \in Conns :
            (/\ conn[c].open /\ ~conn'[c].open
             /\ ConnectionsFor(conn[c].user) \ {c} # {})
            => /\ conn'[c].pc \notin OfflinePath
               /\ ConnectionsFor(conn[c].user)' # {}
               /\ presenceTrace' = presenceTrace]_vars

\* a socket of u closed while another stayed registered, without user_offline;
\* the other one closed last, and user_offline was emitted once
C4_Witness ==
    \E u \in Users :
        /\ ConnsAt(u, {"closed"}) # {}
        /\ ConnsAt(u, {"offline_sent"}) # {}
        /\ Count("user_offline", presenceTrace[u]) = 1

\* C5: user_online is broadcast once per empty to non-empty edge of the
\* user's connection set, never for a socket admitted while another is
\* registered.
C5_OnlineOncePerEdge ==
    \A u \in Users :
        Count("user_online", presenceTrace[u]) <= Count("up", presenceTrace[u])

\* C6: activeUsers holds socket c under u exactly when c is an admitted
\* socket of u whose transport has not closed.
C6_RegistryMatchesLiveConnections ==
    \A u \in Users, c \in Conns :
        c \in ConnectionsFor(u)
        <=> (conn[c].pc # "free" /\ conn[c].user = u /\ conn[c].open)

\* C7: receive_message and message_sent are emitted only for a stored
\* message; a send_message whose save failed has emitted nothing and left no
\* record.
C7_NoFanOutBeforePersist ==
    \A m \in MsgIds :
        /\ (\E i \in 1..Len(msgLog[m]) :
               msgLog[m][i].ev \in {"receive_message", "message_sent"})
           => m \in DOMAIN msgs
        /\ send[m].pc = "save_failed"
           => /\ m \notin DOMAIN msgs
              /\ \A i \in 1..Len(msgLog[m]) : msgLog[m][i].by # "send_message"

\* a save failed while the receiver had a registered socket
C7_Witness ==
    \E m \in MsgIds : send[m].pc = "save_failed" /\ IsOnline(send[m].receiver)

\* C8: every send_message that has ended has emitted an acknowledgment to
\* the socket that submitted it: message_sent, or a failure event.
C8_SendAlwaysAcknowledged ==
    \A m \in MsgIds :
        SendEnded(m)
        => \E i \in 1..Len(msgLog[m]) :
              msgLog[m][i].by = "send_message" /\ msgLog[m][i].target = Sock

\* C9: the message_sent of a message to another user reaches every live
\* socket of the sending user, not only the socket that submitted it.
C9_AckToAllSenderTabs ==
    [][\A m \in MsgIds : \A i \in NewEvents(m) :
          (msgLog'[m][i].ev = "message_sent" /\ send[m].receiver # send[m].sender)
          => Room(send[m].sender) \subseteq msgLog'[m][i].to]_vars

\* C10: the receive_message of a message to another user reaches every
\* connected socket of the receiver that is in the registry when it is
\* emitted, also one whose connection handler has not yet joined the room.
C10_ReceiveToAllRegistered ==
    [][\A m \in MsgIds : \A i \in NewEvents(m) :
          (msgLog'[m][i].ev = "receive_message" /\ send[m].receiver # send[m].sender)
          => (ConnectionsFor(send[m].receiver) \cap Connected)
                \subseteq msgLog'[m][i].to]_vars

\* the message_status events the send_message handler has emitted about m
SendStatusEvents(m) ==
    {i \in 1..Len(msgLog[m]) :
        msgLog[m][i].ev = "message_status" /\ msgLog[m][i].by = "send_message"}

StoredStatus(m) == IF m \in DOMAIN msgs THEN msgs[m].status ELSE "none"

\* C11 (as stated): a send_message that has run to its end without a store
\* failure has taken the message to delivered, and emitted
\* message_status{delivered} to the sender's room, if and only if the
\* receiver had a connection in the registry when the handler tested it.
C11_DeliveredIffReceiverOnline ==
    \A m \in MsgIds :
        (send[m].pc = "done" /\ Len(msgLog[m]) > 0 /\ send[m].receiver # send[m].sender)
        => /\ send[m].online <=> SendStatusEvents(m) # {}
           /\ send[m].online => StoredStatus(m) \in {"delivered", "seen"}

\* C11 (amended): with the receiver absent from the registry the handler
\* ends at once, writes no status and emits no message_status; with the
\* receiver present it writes delivered only after reading sent, and emits
\* exactly one message_status{delivered}, to the sender's room, after that
\* write and only after it.
C11_DeliveredOnlyIfOnlineAndStillSent ==
    /\ [](\A m \in MsgIds :
            /\ SendStatusEvents(m) # {}
               => /\ send[m].online /\ send[m].pc = "done"
                  /\ Cardinality(SendStatusEvents(m)) = 1
                  /\ \A i \in SendStatusEvents(m) :
                        /\ msgLog[m][i].status = "delivered"
                        /\ msgLog[m][i].target = send[m].sender
            /\ send[m].pc \in {"findById_wait", "update_wait", "update_ok"}
               => send[m].online)
    /\ [][\A m \in MsgIds :
            /\ (send[m].pc = "populate_ok" /\ send'[m].pc # "populate_ok")
               => /\ send'[m].online = IsOnline(send[m].receiver)
                  /\ send'[m].pc = IF send'[m].online THEN "findById_wait" ELSE "done"
            /\ (send'[m] # send[m] /\ StoredStatus(m)' # StoredStatus(m)
                 /\ send[m].pc # "save_wait")
               => /\ send[m].online
                  /\ send[m].pc = "update_wait" /\ send'[m].pc = "update_ok"
                  /\ StoredStatus(m)' = "delivered"
            /\ (send[m].pc = "findById_wait" /\ send'[m].pc = "update_wait")
               => StoredStatus(m) = "sent"
            /\ (send[m].pc = "update_ok" /\ send'[m].pc # "update_ok")
               => /\ Len(msgLog'[m]) = Len(msgLog[m]) + 1
                  /\ Len(msgLog'[m]) \in SendStatusEvents(m)']_vars

\* the online path was taken to its end: a message to another user, whose
\* handler has written delivered and announced it
C11_Witness ==
    \E m \in MsgIds :
        /\ send[m].pc = "done" /\ send[m].online
        /\ SendStatusEvents(m) # {}
        /\ StoredStatus(m) = "delivered"
        /\ send[m].receiver # send[m].sender

\* no handler is between two of its steps
HandlersEnded ==
    /\ \A c \in Conns : conn[c].pc \in {"free", "live", "closed", "offline_sent"}
    /\ \A m \in MsgIds : send[m].pc \in {"idle", "done"}
    /\ \A k \in SeenSlots : seen[k].pc \in {"idle", "done"}

\* C12: in the behaviours without a failed store operation, when the
\* connection handler of U ends, every message that was in sent for U when U
\* connected is stored as delivered or seen; and once the handlers in
\* progress have ended, no message addressed to a user with a connection in
\* the registry is left in sent.
C12_ReconciledOnConnect ==
    /\ [](\A u \in Users : (HandlersEnded /\ IsOnline(u)) => SentTo(u) = {})
    /\ [][\A c \in Conns :
            (conn[c].pc # "live" /\ conn'[c].pc = "live")
            => \A m \in conn[c].due : StoredStatus(m)' \in {"delivered", "seen"}]_vars

\* B connected while a message of A to B was in sent, and B's handler has
\* ended having reconciled it
C12_Witness ==
    \E c \in Conns, m \in DOMAIN msgs :
        /\ conn[c].pc = "live"
        /\ msgs[m].receiver_id = conn[c].user /\ msgs[m].sender_id # conn[c].user
        /\ msgs[m].status = "delivered"
        /\ \E i \in StatusEvents(m) : msgLog[m][i].by = "connection"
        /\ HandlersEnded

\* the message_status{delivered} events emitted about m to the room of its
\* stored sender
DeliveredEvents(m) ==
    {i \in StatusEvents(m) :
        msgLog[m][i].status = "delivered" /\ msgLog[m][i].target = msgs[m].sender_id}

\* the connection handlers of u that have run to their end
EndedConnections(u) ==
    {c \in Conns : conn[c].user = u /\ conn[c].pc \in {"live", "closed"} \cup OfflinePath}

\* C13: the room of the sender of a message that was in sent for U when U
\* connected gets exactly one message_status{delivered} for that id: never
\* two, also when two connections of U reconcile concurrently, and one once
\* the connection handlers of U have ended.
C13_ExactlyOneDeliveredPerMessage ==
    \A m \in DOMAIN msgs :
        /\ Cardinality(DeliveredEvents(m)) <= 1
        /\ (HandlersEnded /\ EndedConnections(msgs[m].receiver_id) # {})
           => Cardinality(DeliveredEvents(m)) = 1

\* the number of entries for emoji e by user u among the pairs of a list
PairCount(pairs, u, e) ==
    Cardinality({i \in 1..Len(pairs) : pairs[i].user_id = u /\ pairs[i].emoji = e})

\* the same pairs, each as often, in whatever order
SamePairs(p, q) ==
    \A u \in Users, e \in Emojis : PairCount(p, u, e) = PairCount(q, u, e)

\* react_message k has been applied to the store, and no other ran meanwhile
AppliedAlone(k) == react[k].pc \in {"save_ok", "done"} /\ react[k].alone

\* C14: a react_message applied on its own adds the (user, emoji) pair when
\* the stored list has none and removes the pair when it has it; and applied
\* a second time, to the list the first application left, it returns the
\* stored list to the pairs it had before the first.
C14_ToggleTwiceRestores ==
    /\ \A k \in ReactSlots :
          AppliedAlone(k)
          => LET had == PairCount(react[k].before, react[k].by, react[k].emoji)
                 has == PairCount(react[k].after, react[k].by, react[k].emoji)
             IN IF had = 0 THEN has = 1 ELSE has = 0
    /\ \A j, k \in ReactSlots :
          (/\ j < k /\ AppliedAlone(j) /\ AppliedAlone(k)
           /\ react[j].by = react[k].by /\ react[j].emoji = react[k].emoji
           /\ react[j].messageId = react[k].messageId
           /\ react[k].before = react[j].after)
          => SamePairs(react[k].after, react[j].before)

\* C15: a stored reaction list holds at most one entry for any
\* (emoji, user_id) pair, whatever the interleaving of the react_message
\* handlers.
C15_OneReactionPerPair ==
    \A m \in DOMAIN msgs, u \in Users, e \in Emojis :
        Cardinality(Matching(msgs[m].reactions, u, e)) <= 1

\* the users whose connections the events about message m are for
Parties(m) == {msgs[m].sender_id, msgs[m].receiver_id}

\* C16: each react_message that has saved emits two message_reaction events
\* carrying one and the same list, the first to the room of the message's
\* sender and the second to the room of its receiver; no message_reaction
\* reaches a socket of another user, and none is emitted otherwise.
C16_ReactionToBothPartiesOnly ==
    /\ [](/\ Len(relayLog) = 2 * Cardinality({k \in ReactSlots : react[k].pc = "done"})
          /\ \A i \in 1..Len(relayLog) :
                relayLog[i].ev = "message_reaction"
                => \A c \in relayLog[i].to :
                      conn[c].user \in Parties(relayLog[i].payload.messageId))
    /\ [][\A k \in ReactSlots :
            (react[k].pc = "save_ok" /\ react'[k].pc # "save_ok")
            => LET n == Len(relayLog)
                   m == msgs[react[k].messageId]
               IN /\ Len(relayLog') = n + 2
                  /\ relayLog'[n + 1].ev = "message_reaction"
                  /\ relayLog'[n + 2].ev = "message_reaction"
                  /\ relayLog'[n + 1].target = m.sender_id
                  /\ relayLog'[n + 1].to = Room(m.sender_id)
                  /\ relayLog'[n + 2].target = m.receiver_id
                  /\ relayLog'[n + 2].to = Room(m.receiver_id)
                  /\ relayLog'[n + 1].payload = relayLog'[n + 2].payload
                  /\ relayLog'[n + 1].payload.messageId = react[k].messageId]_vars

\* a reaction to a message of A to A was broadcast to the socket of A while a
\* socket of B was live, and did not reach it
C16_Witness ==
    \E i \in 1..Len(relayLog), c \in Conns :
        /\ relayLog[i].ev = "message_reaction"
        /\ relayLog[i].to # {}
        /\ relayLog[i].payload.reactions # <<>>
        /\ conn[c].pc = "live" /\ conn[c].open
        /\ conn[c].user \notin Parties(relayLog[i].payload.messageId)
        /\ c \notin relayLog[i].to

\* the token passes jwt.verify: signed with the secret and not expired
Authentic(token) == token # NoToken /\ token.signed /\ ~token.expired

\* C17: a handshake with no token, or with a token that fails verification,
\* is answered with the authentication error and changes nothing: the socket
\* never enters activeUsers, its connection handler never runs (no
\* last_seen write, no presence broadcast, no room join); every socket that
\* is admitted carries an authentic token and acts as the user it names.
C17_RejectedBeforeAnyMutation ==
    /\ [](\A c \in Conns :
            /\ handshake[c].answer = "error"
               => /\ conn[c] = FreeConn
                  /\ \A u \in Users : c \notin ConnectionsFor(u)
            /\ handshake[c].answer # "none"
               => (handshake[c].answer = "error" <=> ~Authentic(handshake[c].token))
            /\ conn[c].pc # "free"
               => /\ Authentic(handshake[c].token)
                  /\ conn[c].user = handshake[c].token.id)
    /\ [][\A c \in Conns :
            (handshake[c].answer = "none" /\ handshake'[c].answer = "error")
            => UNCHANGED <<activeUsers, conn, last_seen, presenceTrace, msgs>>]_vars

\* while A is online on one socket, a handshake that carries a token naming
\* A, forged or expired, has been refused
C17_Witness ==
    \E c, d \in Conns :
        /\ handshake[c].answer = "error"
        /\ handshake[c].token # NoToken
        /\ conn[d].pc = "live" /\ conn[d].open
        /\ handshake[c].token.id = conn[d].user

ForceLogouts == {i \in 1..Len(relayLog) : relayLog[i].ev = "force_logout"}

TypingEvents == {i \in 1..Len(relayLog) : relayLog[i].ev \in {"typing", "stop_typing"}}

\* C19: a typing or stop_typing event from a socket of A naming receiver B
\* is emitted once, as a typing or stop_typing event, to the sockets in B's room and to no
\* socket of another user, carrying A's authenticated id as senderId; the
\* step changes neither the registry nor the stores.
C19_TypingForwardedToReceiverOnly ==
    /\ [](\A i \in TypingEvents :
            /\ relayLog[i].payload.senderId = relayLog[i].by
            /\ \A c \in relayLog[i].to : conn[c].user = relayLog[i].target)
    /\ [][relayLog' # relayLog
          => /\ Len(relayLog') = Len(relayLog) + 1
             /\ Len(relayLog') \in TypingEvents'
             /\ relayLog'[Len(relayLog')].to = Room(relayLog'[Len(relayLog')].target)
             /\ \E c \in Room(relayLog'[Len(relayLog')].by) :
                   relayLog'[Len(relayLog')].payload.senderId = conn[c].user
             /\ UNCHANGED <<activeUsers, conn, last_seen, password, msgs, msgLog,
                            presenceTrace>>]_vars

\* A, on a live socket, typed to B: the event reached a socket of B and not
\* the socket of A
C19_Witness ==
    \E i \in TypingEvents, c \in Conns :
        /\ relayLog[i].to # {}
        /\ relayLog[i].by # relayLog[i].target
        /\ conn[c].pc = "live" /\ conn[c].open /\ conn[c].user = relayLog[i].by
        /\ c \notin relayLog[i].to

\* C20: every message_status{seen} event of a stored message is emitted to
\* the room of the user in the message's sender_id and reaches sockets of
\* that user only, whatever senderId the message_seen payload carried.
C20_SeenStatusToStoredSender ==
    \A m \in DOMAIN msgs : \A i \in 1..Len(msgLog[m]) :
        msgLog[m][i].by = "message_seen"
        => /\ msgLog[m][i].target = msgs[m].sender_id
           /\ \A c \in msgLog[m][i].to : conn[c].user = msgs[m].sender_id

\* the ids that name no stored message
Unstored == (MsgIds \cup {0}) \ DOMAIN msgs

\* C21: a message_seen or a react_message that names an id not in the
\* Message Store emits nothing: no message_status event about that id comes
\* from a message_seen handler, and no message_reaction event names it.
C21_UnknownIdEmitsNothing ==
    /\ \A m \in Unstored \cap MsgIds : \A i \in 1..Len(msgLog[m]) :
          msgLog[m][i].by # "message_seen"
    /\ \A i \in 1..Len(relayLog) :
          relayLog[i].ev = "message_reaction"
          => relayLog[i].payload.messageId \notin Unstored

\* C30: the stored status of a message becomes seen only in the store step
\* of a message_seen that was issued on a socket of the message's receiver.
C30_SeenOnlyByReceiver ==
    [][\A m \in DOMAIN msgs :
          (msgs[m].status # "seen" /\ msgs'[m].status = "seen")
          => \E k \in SeenSlots :
                /\ seen[k].pc = "update_wait" /\ seen'[k].pc = "update_ok"
                /\ seen[k].messageId = m
                /\ seen[k].by = msgs[m].receiver_id]_vars

\* C22: a message of A to B whose send_message has ended with B absent from
\* the registry, B not having connected since: it is stored as sent,
\* message_sent went to the submitting socket, receive_message reached no
\* socket, and no message_status has been emitted about it.
C22_OfflineReceiverLeavesSent ==
    \A m \in MsgIds :
        (/\ send[m].pc = "done" /\ ~send[m].online
         /\ send[m].receiver # send[m].sender
         /\ \A c \in Conns : conn[c].user # send[m].receiver)
        => /\ StoredStatus(m) = "sent"
           /\ StatusEvents(m) = {}
           /\ \E i \in 1..Len(msgLog[m]) :
                 msgLog[m][i].ev = "message_sent" /\ msgLog[m][i].to = {send[m].conn}
           /\ \A i \in 1..Len(msgLog[m]) :
                 msgLog[m][i].ev = "receive_message" => msgLog[m][i].to = {}

\* C23: a socket whose connection handler was ended by a failed last_seen
\* write is out of activeUsers once its transport has closed, and the close
\* leaves the entries of the other users as they were.
C23_FailedConnectStillUnregisters ==
    /\ [](\A c \in Conns :
            (conn[c].pc = "rejected" /\ ~conn[c].open)
            => c \notin ConnectionsFor(conn[c].user))
    /\ [][\A c \in Conns :
            (conn[c].pc = "rejected" /\ conn[c].open /\ ~conn'[c].open)
            => \A u \in Users \ {conn[c].user} :
                  ConnectionsFor(u)' = ConnectionsFor(u)]_vars

\* C26: every non-empty to empty edge of a user's connection set gets its
\* user_offline: a disconnect handler that took the last-connection branch
\* and has ended, by its emit or by a failed last_seen write, has broadcast
\* user_offline.  (A handler that has ended emits nothing later.)
C26_OfflineAfterEveryLastClose ==
    \A u \in Users :
        Count("user_offline", presenceTrace[u])
            >= Cardinality(ConnsAt(u, {"offline_sent", "offline_failed"}))

IsBroadcast(x) == x \in {"user_online", "user_offline"}

\* the presence broadcasts about u, in the order of their emission
Broadcasts(u) == SelectSeq(presenceTrace[u], IsBroadcast)

\* no connection or disconnect handler is between two of its steps
PresenceHandlersEnded ==
    \A c \in Conns : conn[c].pc \in {"free", "live", "closed", "offline_sent"}

\* C27: when no connection or disconnect handler is in progress, the latest
\* presence broadcast about U is user_online if U has a socket in activeUsers,
\* and user_offline (or there is none) if U has not.
C27_LastBroadcastMatchesRegistry ==
    PresenceHandlersEnded
    => \A u \in Users :
          LET b == Broadcasts(u)
          IN IF IsOnline(u) THEN b # <<>> /\ b[Len(b)] = "user_online"
             ELSE b = <<>> \/ b[Len(b)] = "user_offline"

\* the sockets of u in server/sockets.ts whose listeners are attached and
\* whose transport is open
SingleLive(u) ==
    {c \in Conns : single.conn[c].user = u /\ single.conn[c].pc = "live"
                      /\ single.conn[c].open}

\* C24: in server/sockets.ts, when a live socket of a user closes while
\* another socket of that user is live, the user stays in activeUsers and the
\* closing socket's disconnect handler does not go on to user_offline.
C24_SingleKeepsUserWhileOtherLive ==
    [][\A c \in Conns :
          (/\ single.conn[c].open /\ ~single'.conn[c].open
           /\ c \in SingleLive(single.conn[c].user)
           /\ SingleLive(single.conn[c].user) \ {c} # {})
          => /\ single.conn[c].user \in DOMAIN single'.activeUsers
             /\ single'.conn[c].pc # "offline_wait"]_vars

\* C25: once the handlers in progress have ended without a failed store
\* operation, every message stored as delivered has had a
\* message_status{delivered} emitted for its id to the room of its sender.
C25_DeliveredAlwaysAnnounced ==
    HandlersEnded
    => \A m \in DOMAIN msgs :
          msgs[m].status = "delivered" => DeliveredEvents(m) # {}

\* C29: the disconnect handler of a user's last socket removes the user's
\* entry from activeUsers in the step of the close, then writes last_seen
\* (the time read at the close), and emits user_offline only after that write
\* was applied; the closed socket is out of the registry at the write and at
\* the broadcast, and no user_offline is emitted any other way.
C29_LastSeenBeforeOffline ==
    /\ [](\A c \in Conns :
            conn[c].pc \in OfflinePath => c \notin ConnectionsFor(conn[c].user))
    /\ [][\A c \in Conns :
            /\ (conn[c].pc \notin OfflinePath /\ conn'[c].pc \in OfflinePath)
               => /\ conn'[c].pc = "offline_wait"
                  /\ conn[c].user \in DOMAIN activeUsers
                  /\ conn[c].user \notin DOMAIN activeUsers'
                  /\ UNCHANGED last_seen
                  /\ Count("user_offline", presenceTrace'[conn[c].user])
                        = Count("user_offline", presenceTrace[conn[c].user])
            /\ (conn[c].pc # "offline_ok" /\ conn'[c].pc = "offline_ok")
               => /\ conn[c].pc = "offline_wait"
                  /\ last_seen'[conn[c].user] = conn[c].ts
                  /\ UNCHANGED presenceTrace
            /\ (conn[c].pc # "offline_sent" /\ conn'[c].pc = "offline_sent")
               => /\ conn[c].pc = "offline_ok"
                  /\ UNCHANGED last_seen]_vars
    /\ [][\A u \in Users :
            Count("user_offline", presenceTrace'[u]) # Count("user_offline", presenceTrace[u])
            => \E c \in Conns :
                  /\ conn[c].user = u
                  /\ conn[c].pc = "offline_ok" /\ conn'[c].pc = "offline_sent"]_vars

\* the only socket of a user connected and closed: the user is out of the
\* registry, last_seen holds the latest time, and user_offline was emitted
C29_Witness ==
    \E c \in Conns :
        /\ conn[c].pc = "offline_sent"
        /\ ~IsOnline(conn[c].user)
        /\ last_seen[conn[c].user] = MaxTime
        /\ presenceTrace[conn[c].user] = <<"up", "user_online", "down", "user_offline">>

\* the sockets of u whose listeners are attached and whose transport is open
Listening(u) == {c \in Conns : conn[c].user = u /\ conn[c].pc = "live" /\ conn[c].open}

\* the positions of a connection handler between its registration and the
\* end of its reconciliation
Connecting ==
    {"last_seen_wait", "last_seen_ok", "find_wait", "find_ok", "updateMany_wait",
     "updateMany_ok", "recon_err"}

\* C28: the connection handler of an admitted socket registers the socket,
\* then writes last_seen, then reconciles, and attaches its listeners only
\* after the reconciliation has ended; a send_message, message_seen,
\* react_message, typing, stop_typing or disconnect handler starts only on a
\* socket whose listeners are attached.
C28_ListenersAfterReconciliation ==
    /\ [](\A c \in Conns :
            (conn[c].pc \in Connecting /\ conn[c].open)
            => c \in ConnectionsFor(conn[c].user))
    /\ [][\A c \in Conns :
            /\ (conn[c].pc = "free" /\ conn'[c].pc # "free")
               => /\ conn'[c].pc = "last_seen_wait"
                  /\ \E u \in Users : conn'[c].user = u /\ c \in ConnectionsFor(u)'
                  /\ UNCHANGED <<last_seen, msgs>>
            /\ (conn[c].pc # "last_seen_ok" /\ conn'[c].pc = "last_seen_ok")
               => /\ conn[c].pc = "last_seen_wait"
                  /\ last_seen'[conn[c].user] = conn[c].ts
            /\ (conn[c].pc # "find_wait" /\ conn'[c].pc = "find_wait")
               => conn[c].pc = "last_seen_ok"
            /\ (conn[c].pc # "find_ok" /\ conn'[c].pc = "find_ok")
               => conn[c].pc = "find_wait"
            /\ (conn[c].pc # "updateMany_wait" /\ conn'[c].pc = "updateMany_wait")
               => conn[c].pc = "find_ok"
            /\ (conn[c].pc # "live" /\ conn'[c].pc = "live")
               => \/ conn[c].pc = "find_ok" /\ conn[c].found = {}
                  \/ conn[c].pc = "recon_err"
                  \/ conn[c].pc = "updateMany_ok"
            /\ (conn[c].pc \in Connecting \cup {"rejected"}
                 /\ conn'[c].pc \notin Connecting \cup {"rejected"})
               => conn'[c].pc = "live"]_vars
    /\ [][/\ \A m \in MsgIds :
               (send[m].pc = "idle" /\ send'[m].pc # "idle")
               => send'[m].conn \in Listening(send'[m].sender)
          /\ \A k \in SeenSlots :
               (seen[k].pc = "idle" /\ seen'[k].pc # "idle") => Listening(seen'[k].by) # {}
          /\ \A k \in ReactSlots :
               (react[k].pc = "idle" /\ react'[k].pc # "idle") => Listening(react'[k].by) # {}
          /\ (Len(relayLog') > Len(relayLog) /\ Len(relayLog') \in TypingEvents')
               => Listening(relayLog'[Len(relayLog')].by) # {}
          /\ \A c \in Conns :
               (conn[c].pc \notin OfflinePath \cup {"closed"}
                /\ conn'[c].pc \in OfflinePath \cup {"closed"})
               => c \in Listening(conn[c].user)]_vars

\* while the connection handler of one socket was still reconciling, an
\* inbound event was handled on another socket, whose listeners were attached
C28_Witness ==
    \E c \in Conns :
        /\ conn[c].pc \in {"updateMany_wait", "updateMany_ok"} /\ conn[c].open
        /\ ~Quiet

\* the message_reaction events emitted about message m
ReactionEvents(m) ==
    {i \in 1..Len(relayLog) :
        relayLog[i].ev = "message_reaction" /\ relayLog[i].payload.messageId = m}

\* the react_message invocations that named message m
ReactedTo(m) == {k \in ReactSlots : react[k].pc \in {"done", "save_ok", "save_wait"}
                                     /\ react[k].messageId = m}

Latest(S) == CHOOSE i \in S : \A j \in S : j <= i

\* C31: when the react_message handlers on a message, each by another user
\* or with another emoji, have all ended, the list in the latest
\* message_reaction event about the message is the stored list.
C31_LastReactionEventIsStoredList ==
    \A m \in DOMAIN msgs :
        (/\ ReactRunning = {}
         /\ ReactionEvents(m) # {}
         /\ \A j, k \in ReactedTo(m) :
               j # k => (react[j].by # react[k].by \/ react[j].emoji # react[k].emoji))
        => relayLog[Latest(ReactionEvents(m))].payload.reactions = Pairs(msgs[m].reactions)

\* the message_status events about m that a step appends and that come from
\* handler h
NewStatusEvents(m, h) ==
    {i \in NewEvents(m) : msgLog'[m][i].ev = "message_status" /\ msgLog'[m][i].by = h}

\* C32: a failed write of delivered (by send_message or by the
\* reconciliation) or of seen changes no stored message, emits nothing and
\* leaves every socket as it was; a handler goes on to its message_status
\* emit only from a write that was applied, and emits only then.
C32_FailedStatusWriteIsDropped ==
    /\ [][/\ \A m \in MsgIds :
               /\ (send[m].pc = "update_wait" /\ send'[m].pc = "failed")
                  => UNCHANGED <<msgs, msgLog, conn, activeUsers>>
               /\ (send[m].pc = "update_wait" /\ send'[m].pc = "update_ok")
                  => msgs'[m].status = "delivered"
               /\ NewStatusEvents(m, "send_message") # {} => send[m].pc = "update_ok"
               /\ NewStatusEvents(m, "message_seen") # {}
                  => \E k \in SeenSlots : seen[k].pc = "update_ok" /\ seen[k].messageId = m
               /\ NewStatusEvents(m, "connection") # {}
                  => \E c \in Conns : conn[c].pc = "updateMany_ok"
                                       /\ \E f \in conn[c].found : f.id = m
          /\ \A k \in SeenSlots :
               /\ (seen[k].pc = "update_wait" /\ seen'[k].pc = "failed")
                  => UNCHANGED <<msgs, msgLog, conn, activeUsers>>
               /\ (seen[k].pc = "update_wait" /\ seen'[k].pc = "update_ok"
                    /\ seen[k].messageId \in DOMAIN msgs)
                  => /\ msgs'[seen[k].messageId].status = "seen"
                     /\ msgs'[seen[k].messageId].seen_at = seen[k].ts
          /\ \A c \in Conns :
               /\ (conn[c].pc = "updateMany_wait" /\ conn'[c].pc = "recon_err")
                  => UNCHANGED <<msgs, msgLog, activeUsers>>
               /\ (conn[c].pc = "updateMany_wait" /\ conn'[c].pc = "updateMany_ok")
                  => \A m \in SentTo(conn[c].user) : msgs'[m].status = "delivered"
               /\ (conn[c].pc = "recon_err" /\ conn'[c].pc # "recon_err")
                  => conn'[c].pc = "live"]_vars
    /\ [](\A m \in MsgIds : send[m].pc = "failed" => SendStatusEvents(m) = {})

\* on the one socket there is, the write of a message_seen failed and
\* nothing was emitted for it; a later message_seen on the same socket was
\* handled to its end
C32_Witness ==
    /\ conn[1].pc = "live" /\ conn[2].pc = "free"
    /\ seen[1].pc = "failed" /\ seen[2].pc = "done"
    /\ \E m \in DOMAIN msgs :
          /\ msgs[m].status = "seen"
          /\ Cardinality({i \in StatusEvents(m) : msgLog[m][i].by = "message_seen"}) = 1

\* the fields of a stored message that are set at its creation
Core(d) == [sender_id |-> d.sender_id, receiver_id |-> d.receiver_id, message |-> d.message]

\* C33: a stored message stays stored, and no step changes its sender_id,
\* its receiver_id or its body: the delivered update, the bulk update of the
\* reconciliation, message_seen and react_message change status, seen_at and
\* reactions only.
C33_CoreFieldsImmutable ==
    [][\A m \in DOMAIN msgs :
          /\ m \in DOMAIN msgs'
          /\ Core(msgs'[m]) = Core(msgs[m])
          /\ DOMAIN msgs'[m] = DOMAIN msgs[m]]_vars

\* the earlier message of A to B has been reconciled and then marked seen
\* from a socket that named another sender, and is still a message of A to B
C33_Witness ==
    /\ 0 \in DOMAIN msgs
    /\ msgs[0].status = "seen"
    /\ \E i \in StatusEvents(0) : msgLog[0][i].by = "connection"
    /\ \E i \in StatusEvents(0) : msgLog[0][i].by = "message_seen" /\ msgLog[0][i].target = "B"
    /\ Core(msgs[0]) = Core(NewMessage("A", "B"))

\* C34: activeUsers maps no key to the empty set, in the states between the
\* steps of the handlers; a key appears together with the id of the socket
\* that connects, and disappears in the step of the close that removes the
\* last id of its set.
C34_NoEmptyEntry ==
    /\ [](\A u \in DOMAIN activeUsers : activeUsers[u] # {})
    /\ [][\A u \in Users :
            /\ (u \notin DOMAIN activeUsers /\ u \in DOMAIN activeUsers')
               => \E c \in Conns : /\ conn[c].pc = "free" /\ conn'[c].pc # "free"
                                    /\ conn'[c].user = u
                                    /\ activeUsers'[u] = {c}
            /\ (u \in DOMAIN activeUsers /\ u \notin DOMAIN activeUsers')
               => \E c \in Conns : /\ conn[c].open /\ ~conn'[c].open
                                    /\ conn[c].user = u
                                    /\ activeUsers[u] = {c}]_vars

\* the last socket of one user has closed and the user's key is gone, while
\* another user keeps an entry
C34_Witness ==
    \E c, d \in Conns :
        /\ conn[c].pc \in OfflinePath
        /\ conn[c].user \notin DOMAIN activeUsers
        /\ conn[d].user # conn[c].user
        /\ d \in ConnectionsFor(conn[d].user)

\* C35: in the events about a message, every message_status emitted to the
\* room of the message's sender comes after the message_sent
\* acknowledgment.
C35_AckBeforeStatus ==
    \A m \in DOMAIN msgs : \A i \in StatusEvents(m) :
        msgLog[m][i].target = msgs[m].sender_id
        => \E j \in 1..(i - 1) : msgLog[m][j].ev = "message_sent"

\* C36: a stored message has seen_at set exactly when its status is seen.
C36_SeenAtIffSeen ==
    \A m \in DOMAIN msgs : (msgs[m].seen_at # NoTime) <=> (msgs[m].status = "seen")

\* C37: a message enters the store with status sent, no seen_at and no
\* reaction, its sender_id the user of the socket that submitted the
\* send_message and its receiver_id the receiver the payload named; a
\* send_message is taken up as the user of its socket.
C37_CreatedAsSentByAuthenticatedUser ==
    [][\A m \in MsgIds :
          /\ (m \notin DOMAIN msgs /\ m \in DOMAIN msgs')
             => /\ send[m].pc = "save_wait"
                /\ msgs'[m] = NewMessage(conn[send[m].conn].user, send[m].receiver)
                /\ msgs'[m].status = "sent"
                /\ msgs'[m].sender_id = conn[send[m].conn].user
          /\ (send[m].pc = "idle" /\ send'[m].pc # "idle")
             => /\ send'[m].conn \in Conns
                /\ send'[m].sender = conn[send'[m].conn].user]_vars

\* a message submitted on the socket of one user, addressed to the other
\* user, is stored; the other user has a socket too
C37_Witness ==
    \E m \in MsgIds \cap DOMAIN msgs, d \in Conns :
        /\ msgs[m].sender_id = conn[send[m].conn].user
        /\ msgs[m].receiver_id # msgs[m].sender_id
        /\ conn[d].pc = "live" /\ conn[d].user = msgs[m].receiver_id

\* the entries of a reaction list that are not the entry (e, u)
OtherEntries(list, u, e) ==
    {list[i] : i \in {j \in 1..Len(list) : ~(list[j].user_id = u /\ list[j].emoji = e)}}

\* C38: the save of a react_message from X with emoji e leaves in the stored
\* list of the named message every entry of another user and every entry of
\* X with another emoji, and adds no such entry; it adds one entry (e, X) or
\* removes entries (e, X); no other step of the handler changes a stored list.
C38_ReactTouchesOwnEntryOnly ==
    [][\A m \in DOMAIN msgs :
          msgs'[m].reactions # msgs[m].reactions
          => \E k \in ReactSlots :
                /\ react[k].pc = "save_wait" /\ react'[k].pc = "save_ok"
                /\ react[k].messageId = m
                /\ OtherEntries(msgs'[m].reactions, react[k].by, react[k].emoji)
                      = OtherEntries(msgs[m].reactions, react[k].by, react[k].emoji)
                /\ LET had == Cardinality(Matching(msgs[m].reactions, react[k].by,
                                                   react[k].emoji))
                       has == Cardinality(Matching(msgs'[m].reactions, react[k].by,
                                                   react[k].emoji))
                   IN IF react[k].op = "push" THEN has = had + 1 ELSE has < had]_vars

\* the stored list holds a reaction of each user and both emojis of one of
\* them, after a reaction of that user was removed again
C38_Witness ==
    \E m \in DOMAIN msgs, u, v \in Users :
        /\ u # v
        /\ Matching(msgs[m].reactions, u, "+1") # {}
        /\ Matching(msgs[m].reactions, v, "+1") # {}
        /\ Matching(msgs[m].reactions, u, "heart") = {}
        /\ \E k \in ReactSlots :
              react[k].pc = "done" /\ react[k].op = "pull" /\ react[k].by = u
                 /\ react[k].emoji = "heart"
====
